---- MODULE Spec2Model ----
(***************************************************************************)
(* Model of the review orchestration of the AI Code Mentor extension:      *)
(* ReviewCommand.execute (single-file review) and                          *)
(* ReviewCommand.executeWorkspaceReview (batched workspace review), with    *)
(* the shared FileCache, ReviewStore and ReviewDiagnostics sinks; the       *)
(* normalisation of the remote analysis into a ParsedReview; and the retry *)
(* loop of ApiClient.reviewCode.                                           *)
(*                                                                         *)
(* JavaScript runs the handlers on one thread; a handler gives up control  *)
(* only at an await.  Every action below is the code between two awaits.   *)
(***************************************************************************)
EXTENDS Integers, Sequences, FiniteSets, TLC

\* ------------------------------------------------------------------ bounds

\* Number of candidate files of the workspace in SpecReview.
NumFiles == 4
\* Number of candidate files of the workspace in Spec and SpecOverlap.
SmallFiles == 2
\* Number of candidate files of the workspace in SpecCache.
CacheFiles == 1
\* Number of workspace reviews that may be started in one behaviour of
\* SpecReview, of Spec, of SpecCache and of SpecOverlap.
ReviewStarts == 1
MaxStarts == 2
CacheStarts == 2
OverlapStarts == 2
\* Number of edits (content changes) the user makes in one behaviour.
MaxEdits == 1
\* Number of single-file reviews that may be started in one behaviour.
MaxSingle == 1
\* Number of candidate files of the workspace in SpecEligible.
EligibleFiles == 1
\* Largest number of elements of the bugs list of an analysis.
MaxBugs == 1

\* ------------------------------------------------------- program constants

\* const CONCURRENCY_LIMIT = 3;
CONCURRENCY_LIMIT == 3

\* this.maxRetries = 2;
maxRetries == 2

\* ---------------------------------------------------------- the workspace

\* Files 1..NumFiles are source files under src/; the three files after them
\* are a vendored script, a lock file and a document.
VendoredFile == NumFiles + 1
LockFile == NumFiles + 2
DocFile == NumFiles + 3
AllFiles == 1..(NumFiles + 3)

\* The parts of a file's path that the filters look at.
PathOf(f) ==
    IF f = VendoredFile THEN [dir |-> "node_modules", base |-> "lib.js", ext |-> ".js"]
    ELSE IF f = LockFile THEN [dir |-> "src", base |-> "yarn.lock", ext |-> ".lock"]
    ELSE IF f = DocFile THEN [dir |-> "src", base |-> "notes.md", ext |-> ".md"]
    ELSE [dir |-> "src", base |-> "file.ts", ext |-> ".ts"]

ALLOWED_EXTENSIONS ==
    {".js", ".ts", ".jsx", ".tsx", ".py", ".java", ".cpp", ".cs", ".go", ".rs"}

IGNORED_BASENAMES == {"package-lock.json", "yarn.lock"}

IGNORED_PATH_PARTS ==
    {"node_modules", "dist", "build", "out", ".git", "coverage", ".venv", "__pycache__"}

\* isIgnoredFile(document); every modelled document is a saved file (not untitled).
isIgnoredFile(f) ==
    \/ PathOf(f).base \in IGNORED_BASENAMES
    \/ PathOf(f).dir \in IGNORED_PATH_PARTS
    \/ PathOf(f).ext \notin ALLOWED_EXTENSIONS

\* isIgnoredPath(filePath)
isIgnoredPath(f) ==
    \/ PathOf(f).base \in IGNORED_BASENAMES
    \/ PathOf(f).dir \in IGNORED_PATH_PARTS

\* isSupportedFile(document)
isSupportedFile(f) == PathOf(f).ext \in ALLOWED_EXTENSIONS

\* The file contents the user can produce: two texts and a blank one.
Contents == {"a", "b", " "}

\* !code || code.trim().length === 0
IsBlankOnlyEmpty(code) == code = ""
IsBlank(code) == code \in {"", " "}

\* ------------------------------------------------------------ data shapes

\* What the remote analysis can answer: a summary and a number of suggestions.
RemoteResponses ==
    {[summary |-> "s1", nsug |-> 0], [summary |-> "s2", nsug |-> 1]}

\* A ParsedReview.  file and code are not fields of the program's record: they
\* remember which request the record answers.
NoRecord == [summary |-> "", hints |-> 0, file |-> 0, code |-> ""]

\* null, as the value of a pipeline that produced no outcome.
NullOutcome == [uri |-> 0, summary |-> "", hints |-> 0]

Runs == {"r1", "r2"}

\* ------------------------------------------------------------------ state

VARIABLES
    content,        \* text of each file on disk
    fileCache,      \* FileCache: (uri, code) -> ParsedReview
    reviewStore,    \* ReviewStore: uri -> ParsedReview
    diagnostics,    \* ReviewDiagnostics: uri -> ParsedReview last rendered
    decorations,    \* files whose badge the decoration provider refreshed
    rpc,            \* where each workspace review stands
    index,          \* loop variable of the batch loop
    token,          \* token.isCancellationRequested
    results,        \* the outcome list
    skippedCount,
    scannedCount,
    totalIssues,
    ppc,            \* where each file's pipeline stands
    pcode,          \* the text the pipeline read (const code)
    pret,           \* the value the pipeline's promise resolved to
    single,         \* the single-file review in progress
    outcome,        \* history: how each pipeline ended
    started,        \* history: files whose pipeline was started
    counted,        \* history: files whose pipeline incremented a counter
    settleSeq,      \* history: files of the batch at hand in settling order
    cancelInFlight, \* history: files in flight when Cancel was pressed
    reviewedOk,     \* history: (uri, code) pairs reviewed successfully
    redundant,      \* history: remote calls issued for a pair in reviewedOk
    env,            \* the environment: the files of the workspace, the review
                    \* slots, and how many more of each user or failure
                    \* event may happen
    norm,           \* the normalisation of one analysis into a ParsedReview
    api             \* the call of ApiClient.reviewCode in progress

vars ==
    <<content, fileCache, reviewStore, diagnostics, decorations, rpc, index,
      token, results, skippedCount, scannedCount, totalIssues, ppc, pcode,
      pret, single, outcome, started, counted, settleSeq, cancelInFlight,
      reviewedOk, redundant, env, norm, api>>

sinkVars == <<fileCache, reviewStore, diagnostics, decorations>>
histVars == <<outcome, started, counted, settleSeq, cancelInFlight, reviewedOk, redundant>>


\* vscode.workspace.findFiles(includePattern, excludePattern): the files of the
\* workspace, in discovery order, whose extension the include glob lists and
\* that lie under none of the excluded directories.
findFiles ==
    SelectSeq([i \in 1..(NumFiles + 3) |-> i],
              LAMBDA f : /\ f \in env.files
                         /\ PathOf(f).ext \in ALLOWED_EXTENSIONS
                         /\ PathOf(f).dir \notin IGNORED_PATH_PARTS)

\* Discovery without the exclude glob and without isIgnoredPath.
targetFilesNoExclusion ==
    SelectSeq([i \in 1..(NumFiles + 3) |-> i],
              LAMBDA f : f \in env.files /\ PathOf(f).ext \in ALLOWED_EXTENSIONS)

\* const targetFiles = files.filter((file) => !isIgnoredPath(file.fsPath));
targetFiles == SelectSeq(findFiles, LAMBDA f : ~isIgnoredPath(f))

\* ------------------------------------------------------------ FileCache

\* FileCache keeps one record per (file identity, content fingerprint); two
\* different texts have different fingerprints.
CacheKeys == AllFiles \X Contents

\* fileCache.get(uri, code): the record stored under the pair, or undefined.
FileCacheGet(cache, key) == cache[key]

\* fileCache.set(uri, code, parsed)
FileCacheSet(cache, key, parsed) == [cache EXCEPT ![key] = parsed]

\* ------------------------------------------------- helpers of the pipeline

Min(a, b) == IF a < b THEN a ELSE b

\* The (uri, code) pair the pipeline hands to fileCache.get and fileCache.set.
PipelineCacheKeyNoContent(f, code) == <<f, "a">>
PipelineCacheKeyNoUri(f, code) == <<1, code>>
PipelineCacheKey(f, code) == <<f, code>>

\* targetFiles.slice(index, index + CONCURRENCY_LIMIT)
BatchSliceTooWide(idx) ==
    SubSeq(targetFiles, idx + 1, Min(idx + CONCURRENCY_LIMIT + 1, Len(targetFiles)))
BatchSlice(idx) ==
    SubSeq(targetFiles, idx + 1, Min(idx + CONCURRENCY_LIMIT, Len(targetFiles)))

SeqToSet(s) == {s[i] : i \in 1..Len(s)}

\* if (token.isCancellationRequested) break;
ShouldBreakNever(r) == FALSE
ShouldBreak(r) == token[r]

\* Normalisation of the analysis the remote call returned into a ParsedReview
\* (the summary and the suggestions are what the orchestration reads).
ParseAnalysis(analysis, f, code) ==
    [summary |-> analysis.summary, hints |-> analysis.nsug, file |-> f, code |-> code]

\* await Promise.all(batchPromises): the values in the order of the batch.
PromiseAllValuesBySettling(r, batch) == [i \in 1..Len(batch) |-> pret[r][settleSeq[r][i]]]
PromiseAllValues(r, batch) == [i \in 1..Len(batch) |-> pret[r][batch[i]]]

\* batchResults.filter((r) => r !== null)
NonNull(values) == SelectSeq(values, LAMBDA v : v # NullOutcome)

\* this.fileCache.set(document.uri, code, parsed) of a fresh review
CacheAfterReviewUnlessCancelled(r, f, parsed) ==
    IF token[r] THEN fileCache
    ELSE FileCacheSet(fileCache, PipelineCacheKey(f, pcode[r][f]), parsed)
CacheAfterReview(r, f, parsed) ==
    FileCacheSet(fileCache, PipelineCacheKey(f, pcode[r][f]), parsed)

Settled(r) == \A f \in AllFiles : ppc[r][f] \in {"none", "fulfilled", "rejected"}

Spend(what) == [env EXCEPT ![what] = @ - 1]

\* The status message of execute() when there is nothing to review.
NoTargetMessage == "$(info) Open a file or folder to start AI review"

\* A getReviewTarget that looks at the workspace folders first.
getReviewTargetFoldersFirst(ed, hasFolders) ==
    IF hasFolders THEN "workspace"
    ELSE IF ed # 0 /\ isSupportedFile(ed) /\ ~isIgnoredFile(ed) THEN "file"
    ELSE "none"

\* getReviewTarget(): ed is the active editor's file (0: no editor).
getReviewTarget(ed, hasFolders) ==
    IF ed # 0 /\ isSupportedFile(ed) /\ ~isIgnoredFile(ed) THEN "file"
    ELSE IF hasFolders THEN "workspace"
    ELSE "none"

\* ------------------------------------------------------ JavaScript values

\* A value is a record tagged with its kind.  Numbers are held in tenths
\* (7.5 is 75), so that a fractional score is a value of the model.
Undefined == [t |-> "undefined"]
Null == [t |-> "null"]
NaN == [t |-> "NaN"]
Num(tenths) == [t |-> "number", tenths |-> tenths]
Arr(items) == [t |-> "array", items |-> items]

\* What JSON.parse does with a text that is not JSON.
SyntaxError == [t |-> "SyntaxError"]

\* A string is its characters and the value JSON.parse makes of it; a JSON
\* text is the string JSON.stringify makes of a value.
Str(s) == [t |-> "string", s |-> s, json |-> SyntaxError]
JsonText(v) == [t |-> "string", s |-> "", json |-> v]

\* An analysis object: the fields the extension reads, and `extra`, a field
\* it does not know (the backend also sends refactored code and teaching tips).
Obj(score, summary, review, bugs, security, suggestions, extra) ==
    [t |-> "object", score |-> score, summary |-> summary, review |-> review,
     bugs |-> bugs, security |-> security, suggestions |-> suggestions,
     extra |-> extra]

Fields == {"score", "summary", "review", "bugs", "security", "suggestions", "extra"}

\* {}
EmptyObject ==
    Obj(Undefined, Undefined, Undefined, Undefined, Undefined, Undefined, Undefined)

\* The truthiness that `||` and `if` test.
Truthy(v) ==
    /\ v.t \notin {"undefined", "null", "NaN"}
    /\ v # Num(0)
    /\ v # Str("")

\* a || b
Or(a, b) == IF Truthy(a) THEN a ELSE b

\* Number(v)
Number(v) ==
    CASE v.t = "number" -> v
      [] v.t = "null" -> Num(0)
      [] v.t = "string" ->
            IF v = Str("") THEN Num(0)
            ELSE IF v.json.t = "number" THEN v.json
            ELSE NaN
      [] v.t = "array" -> IF v.items = <<>> THEN Num(0) ELSE NaN
      [] OTHER -> NaN

\* Array.isArray(v)
IsArray(v) == v.t = "array"

\* v[name], for a v that is neither null nor undefined.
Get(v, name) == IF v.t = "object" THEN v[name] ELSE Undefined

\* v.name raises a TypeError.
GetRaises(v) == v.t \in {"null", "undefined"}

\* JSON.parse(text): the value, or SyntaxError when it throws.
JSONparse(text) == text.json

\* JSON.stringify(v): undefined for undefined, else the JSON text, in which
\* NaN is written null and a property that is undefined is left out.
JSONstringify(v) ==
    CASE v.t = "undefined" -> Undefined
      [] v.t = "NaN" -> JsonText(Null)
      [] v.t = "object" ->
            JsonText([k \in DOMAIN v |->
                        IF k = "t" THEN "object"
                        ELSE IF v[k] = NaN THEN Null ELSE v[k]])
      [] OTHER -> JsonText(v)

\* ------------------------------------------------- the analysis payloads

\* Review texts: one without a rating, one with a rating, one with a rating
\* and a list of suggestions.
PlainText == "not json at all"
RatedText == "Solid work. Rating: 8/10"
ListedText == "Needs work, 3/10. Suggestions: - use const (line 3)"

\* bugs: [{line, message}, ...], of a given length.
BugAt(i) == [line |-> 10 * i, message |-> IF i = 1 THEN "null deref" ELSE "leak"]
Bugs(n) == Arr([i \in 1..n |-> BugAt(i)])

ScoreValues ==
    {Undefined, Null, Num(0), Num(70), Num(420), Num(-30), Num(75), JsonText(Num(70))}
SummaryValues == {Undefined, Str("ok")}
ReviewValues == {Undefined, Str(PlainText), Str(RatedText), Str(ListedText)}
BugsValues == {Undefined, Str("none")} \cup {Bugs(n) : n \in 0..MaxBugs}
SuggestionValues == {Undefined, Arr(<<Str("rename x")>>)}
ExtraValues == {Undefined, Str("teaching tips")}

\* The objects the backend can answer with.
Objects ==
    {Obj(sc, su, rv, bg, Undefined, sg, ex) :
        sc \in ScoreValues, su \in SummaryValues, rv \in ReviewValues,
        bg \in BugsValues, sg \in SuggestionValues, ex \in ExtraValues}

\* What reviewCode can resolve to (response.data): an object, the JSON text of
\* an object, the texts "null" and "5", a plain text, the empty string, null
\* and undefined.
Payloads ==
    Objects
    \cup {JsonText(o) : o \in {x \in Objects : x.suggestions = Undefined /\ x.bugs = Undefined}}
    \cup {JsonText(Null), JsonText(Num(50)), Str(PlainText), Str(RatedText),
          Str(""), Null, Undefined}

\* ------------------------------------------------------ parseReviewText

\* How parseReviewText reads the JSON text of an object: "patterns" finds
\* neither an N/10 rating nor a summary marker in it and takes the text as the
\* first paragraph; "labels" takes "score": N for a rating and "summary": S
\* for a labelled summary.
Readings == {"patterns", "labels"}

\* The first N/10 rating of a text, or null.
TextRating(text, reading) ==
    IF text.json = SyntaxError
    THEN CASE text.s = RatedText -> Num(80)
           [] text.s = ListedText -> Num(30)
           [] OTHER -> Null
    ELSE IF reading = "labels" /\ Get(text.json, "score").t = "number"
         THEN Get(text.json, "score")
         ELSE Null

\* The labelled summary of a text, or its first paragraph.
TextSummary(text, reading) ==
    IF text.json # SyntaxError /\ reading = "labels"
       /\ Get(text.json, "summary").t = "string"
    THEN Get(text.json, "summary")
    ELSE text

\* The list items under the suggestions heading of a text.
TextSuggestions(text) ==
    IF text.json = SyntaxError /\ text.s = ListedText
    THEN <<Str("use const")>>
    ELSE <<>>

\* parseReviewText(text): never throws; raw is the text it was given.
parseReviewText(text, reading) ==
    [score |-> TextRating(text, reading),
     summary |-> TextSummary(text, reading),
     suggestions |-> Arr(TextSuggestions(text)),
     issues |-> Arr(<<>>),
     security |-> Arr(<<>>),
     raw |-> text]

\* ---------------------------------------------------------- normalisation

\* typeof analysis === 'string' ? (JSON.parse(analysis) or { review: analysis })
\*                              : analysis || {}
normalizedDataNoTextWrap(analysis) ==
    IF analysis.t = "string"
    THEN IF JSONparse(analysis) # SyntaxError THEN JSONparse(analysis)
         ELSE EmptyObject
    ELSE Or(analysis, EmptyObject)
normalizedDataNoDefault(analysis) ==
    IF analysis.t = "string"
    THEN IF JSONparse(analysis) # SyntaxError THEN JSONparse(analysis)
         ELSE [EmptyObject EXCEPT !.review = analysis]
    ELSE analysis
normalizedData(analysis) ==
    IF analysis.t = "string"
    THEN IF JSONparse(analysis) # SyntaxError THEN JSONparse(analysis)
         ELSE [EmptyObject EXCEPT !.review = analysis]
    ELSE Or(analysis, EmptyObject)

\* score: Number(normalizedData.score) || (normalizedData.score === 0 ? 0 : 5)
SafeScoreFile(score) ==
    Or(Number(score), IF score = Num(0) THEN Num(0) ELSE Num(50))

\* score: Number(normalizedData.score) || 5
SafeScoreWorkspace(score) == Or(Number(score), Num(50))

\* The summary of a payload that has neither a summary nor a review.
SummaryPlaceholder(path) ==
    IF path = "file" THEN Str("AI review completed with limited data")
    ELSE Str("AI review completed")

\* const safeData = { score, summary, bugs, security, suggestions, review }
safeData(path, nd) ==
    Obj(IF path = "file" THEN SafeScoreFile(Get(nd, "score"))
        ELSE SafeScoreWorkspace(Get(nd, "score")),
        Or(Get(nd, "summary"), Or(Get(nd, "review"), SummaryPlaceholder(path))),
        Get(nd, "review"),
        IF IsArray(Get(nd, "bugs")) THEN Get(nd, "bugs") ELSE Arr(<<>>),
        IF IsArray(Get(nd, "security")) THEN Get(nd, "security") ELSE Arr(<<>>),
        IF IsArray(Get(nd, "suggestions")) THEN Get(nd, "suggestions") ELSE Arr(<<>>),
        Undefined)

\* The text handed to parseReviewText:
\* safeData.review || JSON.stringify(safeData)
ParserInput(safe) == Or(safe.review, JSONstringify(safe))

\* parsed.suggestions.map((s) => typeof s === 'string' ? { suggestion: s } : s)
WrapSuggestion(s) == IF s.t = "string" THEN [t |-> "object", suggestion |-> s] ELSE s

\* The record of the catch (parseError) branch.
FallbackOfFile(path, analysis) ==
    [score |-> Num(50),
     summary |-> Str("AI returned non-structured response. Check Output panel for raw data."),
     suggestions |-> Arr(<<[t |-> "object",
         suggestion |-> Str("Review the raw AI output in the Output panel for details")]>>),
     issues |-> Undefined,
     security |-> Undefined,
     raw |-> JSONstringify(analysis)]
Fallback(path, analysis) ==
    IF path = "file"
    THEN [score |-> Num(50),
          summary |-> Str("AI returned non-structured response. Check Output panel for raw data."),
          suggestions |-> Arr(<<[t |-> "object",
              suggestion |-> Str("Review the raw AI output in the Output panel for details")]>>),
          issues |-> Undefined,
          security |-> Undefined,
          raw |-> JSONstringify(analysis)]
    ELSE [score |-> Num(50),
          summary |-> Str("AI review completed with limited data"),
          suggestions |-> Arr(<<>>),
          issues |-> Undefined,
          security |-> Undefined,
          raw |-> JSONstringify(analysis)]

\* parsed.score = parsed.score !== null ? parsed.score : safeData.score
FinalScoreExplicitFirst(p, safe) == safe.score
FinalScore(p, safe) == IF p.score # Null THEN p.score ELSE safe.score

\* parsed.summary = parsed.summary || safeData.summary
FinalSummary(p, safe) == Or(p.summary, safe.summary)

\* The try block: reading a property of normalizedData raises when
\* normalizedData is null.
NormalizeRaises(analysis) == GetRaises(normalizedData(analysis))

\* The ParsedReview that the normalisation of `analysis` leaves in `parsed`.
Normalize(path, analysis, reading) ==
    IF NormalizeRaises(analysis) THEN Fallback(path, analysis)
    ELSE LET safe == safeData(path, normalizedData(analysis))
             p == parseReviewText(ParserInput(safe), reading)
         IN [score |-> FinalScore(p, safe),
             summary |-> FinalSummary(p, safe),
             suggestions |->
                 IF IsArray(p.suggestions)
                 THEN Arr([i \in 1..Len(p.suggestions.items) |->
                              WrapSuggestion(p.suggestions.items[i])])
                 ELSE Arr(<<>>),
             issues |-> p.issues,
             security |-> p.security,
             raw |-> p.raw]

\* No normalisation has run.
NormIdle ==
    [pc |-> "idle", path |-> "", analysis |-> Undefined, reading |-> "",
     raised |-> FALSE, parsed |-> Fallback("workspace", Undefined)]

\* -------------------------------------------------- ApiClient.reviewCode

\* The axios error codes after which reviewCode tries again.
TransientCodes == {"ECONNREFUSED", "ENOTFOUND", "ECONNABORTED", "ETIMEDOUT"}

\* What errorData (axiosError.response.data) can be: an object with a
\* message, an object (or a text) without one, the empty text of a response
\* without a body, or null / undefined ("absent": the body is the JSON null).
Bodies == {"message", "nomessage", "empty", "absent"}

\* What `await axios.post(...)` can throw.  status 0: the error carries no
\* response.  An error with a response has the code axios gives to a status
\* outside 2xx; an error with a transient code has no response.
PostErrors ==
    {[axios |-> TRUE, code |-> c, status |-> 0, body |-> "absent"] : c \in TransientCodes}
    \cup {[axios |-> TRUE, code |-> "ERR_BAD_REQUEST", status |-> st, body |-> b] :
             st \in {400, 404, 429}, b \in Bodies}
    \cup {[axios |-> TRUE, code |-> "ERR_BAD_RESPONSE", status |-> st, body |-> b] :
             st \in {500, 503}, b \in Bodies}
    \cup {[axios |-> TRUE, code |-> "ERR_NETWORK", status |-> 0, body |-> "absent"],
          [axios |-> FALSE, code |-> "", status |-> 0, body |-> "absent"]}

\* Nothing was thrown.
NoThrow == [kind |-> "", detail |-> ""]

\* errorData.message || fallback; reading .message of an absent body raises.
MessageOr(body, kind, fallback) ==
    CASE body = "message" -> [kind |-> kind, detail |-> "errorData.message"]
      [] body \in {"nomessage", "empty"} -> [kind |-> kind, detail |-> fallback]
      [] OTHER -> [kind |-> "TypeError", detail |-> ""]

\* The error thrown for an axios error that carries a response.
ResponseError(err) ==
    CASE err.status = 400 -> MessageOr(err.body, "Bad request: ", "Invalid code provided")
      [] err.status = 429 ->
            [kind |-> "Rate limit exceeded. Please wait a moment and try again.", detail |-> ""]
      [] err.status = 500 ->
            MessageOr(err.body, "Server error: ", "The backend encountered an error")
      [] OTHER -> MessageOr(err.body, "", "Server returned error status")

\* axios.isAxiosError(error) and its code is one of the four transient ones.
IsTransientAlways(err) == err.axios
IsTransient(err) == err.axios /\ err.code \in TransientCodes

\* No call of reviewCode is in progress.
ApiIdle ==
    [pc |-> "idle", attempt |-> 0, posts |-> 0, delays |-> <<>>, shown |-> 0,
     errors |-> <<>>, thrown |-> NoThrow]

\* ---------------------------------------------------------------- Init

Idle ==
    [pc |-> "idle", file |-> 0, code |-> ""]

\* The state before any command, the files holding the texts `text`.
InitFiles(b, text) ==
    /\ content = text
    /\ fileCache = [k \in CacheKeys |-> NoRecord]
    /\ reviewStore = [f \in AllFiles |-> NoRecord]
    /\ diagnostics = [f \in AllFiles |-> NoRecord]
    /\ decorations = {}
    /\ rpc = [r \in Runs |-> "idle"]
    /\ index = [r \in Runs |-> 0]
    /\ token = [r \in Runs |-> FALSE]
    /\ results = [r \in Runs |-> <<>>]
    /\ skippedCount = [r \in Runs |-> 0]
    /\ scannedCount = [r \in Runs |-> 0]
    /\ totalIssues = [r \in Runs |-> 0]
    /\ ppc = [r \in Runs |-> [f \in AllFiles |-> "none"]]
    /\ pcode = [r \in Runs |-> [f \in AllFiles |-> ""]]
    /\ pret = [r \in Runs |-> [f \in AllFiles |-> NullOutcome]]
    /\ single = Idle
    /\ outcome = [r \in Runs |-> [f \in AllFiles |-> "none"]]
    /\ started = [r \in Runs |-> {}]
    /\ counted = [r \in Runs |-> {}]
    /\ settleSeq = [r \in Runs |-> <<>>]
    /\ cancelInFlight = [r \in Runs |-> {}]
    /\ reviewedOk = {}
    /\ redundant = FALSE
    /\ env = b
    /\ norm = NormIdle
    /\ api = ApiIdle

\* Every file holds the text "a".
InitWith(b) == InitFiles(b, [f \in AllFiles |-> "a"])

\* The environment of a specification: the files 1..n and the three
\* non-source files, the review slots, and the event budgets; a workspace
\* folder is open, and the window shows no editor and no status message.
Env(n, slots, starts, edits, singles) ==
    [files |-> (1..n) \cup {VendoredFile, LockFile, DocFile}, slots |-> slots,
     starts |-> starts, edits |-> edits, singles |-> singles,
     folders |-> TRUE, editor |-> 0, statusBar |-> ""]

Init ==
    InitWith(Env(SmallFiles, {"r1"}, MaxStarts, MaxEdits, MaxSingle))

InitReview ==
    InitWith(Env(NumFiles, {"r1"}, ReviewStarts, 0, 0))

InitCache ==
    InitWith(Env(CacheFiles, {"r1"}, CacheStarts, MaxEdits, 0))

InitOverlap ==
    InitWith(Env(SmallFiles, Runs, OverlapStarts, 0, 0))

\* The candidate files hold any of the texts, the blank one included.
InitEligible ==
    \E text \in [AllFiles -> Contents] :
        /\ \A f \in AllFiles : f > EligibleFiles => text[f] = "a"
        /\ InitFiles(Env(EligibleFiles, {"r1"}, ReviewStarts, 0, MaxSingle), text)

\* No review runs: only one call of reviewCode is looked at.
InitApi ==
    InitWith(Env(0, {}, 0, 0, 0))

\* No review runs: only the normalisation of an analysis is looked at.
InitNormalize ==
    InitWith(Env(0, {}, 0, 0, 0))

\* ------------------------------------------------ the workspace review

\* execute() with the workspace as its target, up to `await findFiles(...)`.
\* Slot r holds the locals of one call of executeWorkspaceReview; a slot is
\* taken again only when every pipeline of its previous call has settled.
ExecuteWorkspace(r, ed) ==
    /\ r \in env.slots
    /\ env.starts > 0
    /\ getReviewTarget(ed, env.folders) = "workspace"
    /\ rpc[r] \in {"idle", "done", "noresults", "nofiles", "crashed"}
    /\ Settled(r)
    /\ rpc' = [rpc EXCEPT ![r] = "discover"]
    /\ index' = [index EXCEPT ![r] = 0]
    /\ token' = [token EXCEPT ![r] = FALSE]
    /\ results' = [results EXCEPT ![r] = <<>>]
    /\ skippedCount' = [skippedCount EXCEPT ![r] = 0]
    /\ scannedCount' = [scannedCount EXCEPT ![r] = 0]
    /\ totalIssues' = [totalIssues EXCEPT ![r] = 0]
    /\ ppc' = [ppc EXCEPT ![r] = [f \in AllFiles |-> "none"]]
    /\ pcode' = [pcode EXCEPT ![r] = [f \in AllFiles |-> ""]]
    /\ pret' = [pret EXCEPT ![r] = [f \in AllFiles |-> NullOutcome]]
    /\ outcome' = [outcome EXCEPT ![r] = [f \in AllFiles |-> "none"]]
    /\ started' = [started EXCEPT ![r] = {}]
    /\ counted' = [counted EXCEPT ![r] = {}]
    /\ settleSeq' = [settleSeq EXCEPT ![r] = <<>>]
    /\ cancelInFlight' = [cancelInFlight EXCEPT ![r] = {}]
    /\ env' = Spend("starts")
    /\ UNCHANGED <<norm, api, content, sinkVars, single, reviewedOk, redundant>>

\* findFiles has answered: the candidate list is filtered and the progress
\* notification opens (or the review returns, no file being a candidate).
Discovered(r) ==
    /\ rpc[r] = "discover"
    /\ rpc' = [rpc EXCEPT ![r] = IF Len(targetFiles) = 0 THEN "nofiles" ELSE "loop"]
    /\ UNCHANGED <<norm, api, content, sinkVars, index, token, results, skippedCount,
                   scannedCount, totalIssues, ppc, pcode, pret, single,
                   histVars, env>>

\* One turn of the for loop up to `await Promise.all(batchPromises)`: the
\* batch is sliced and every pipeline of it runs up to its
\* `await openTextDocument(file)`.
StartBatch(r) ==
    /\ rpc[r] = "loop"
    /\ index[r] < Len(targetFiles)
    /\ ~ShouldBreak(r)
    /\ LET batch == SeqToSet(BatchSlice(index[r])) IN
        /\ ppc' = [ppc EXCEPT ![r] = [f \in AllFiles |->
                        IF f \in batch THEN "open" ELSE @[f]]]
        /\ started' = [started EXCEPT ![r] = @ \cup batch]
    /\ rpc' = [rpc EXCEPT ![r] = "await"]
    /\ settleSeq' = [settleSeq EXCEPT ![r] = <<>>]
    /\ UNCHANGED <<norm, api, content, sinkVars, index, token, results, skippedCount,
                   scannedCount, totalIssues, pcode, pret, single, outcome,
                   counted, cancelInFlight, reviewedOk, redundant, env>>

\* Finish without the early return on an empty outcome list.
FinishAlwaysSummary(r) ==
    /\ rpc[r] = "loop"
    /\ index[r] >= Len(targetFiles) \/ ShouldBreak(r)
    /\ rpc' = [rpc EXCEPT ![r] = "done"]
    /\ settleSeq' = [settleSeq EXCEPT ![r] = <<>>]
    /\ UNCHANGED <<norm, api, content, sinkVars, index, token, results, skippedCount,
                   scannedCount, totalIssues, ppc, pcode, pret, single,
                   outcome, started, counted, cancelInFlight, reviewedOk,
                   redundant, env>>

\* The loop ends (all files taken, or the break on cancellation) and the code
\* after withProgress runs: the early return on an empty outcome list, or the
\* summary.
Finish(r) ==
    /\ rpc[r] = "loop"
    /\ index[r] >= Len(targetFiles) \/ ShouldBreak(r)
    /\ rpc' = [rpc EXCEPT ![r] = IF Len(results[r]) = 0 THEN "noresults" ELSE "done"]
    /\ settleSeq' = [settleSeq EXCEPT ![r] = <<>>]
    /\ UNCHANGED <<norm, api, content, sinkVars, index, token, results, skippedCount,
                   scannedCount, totalIssues, ppc, pcode, pret, single,
                   outcome, started, counted, cancelInFlight, reviewedOk,
                   redundant, env>>

\* The user presses Cancel on the progress notification.
Cancel(r) ==
    /\ rpc[r] \in {"loop", "await"}
    /\ ~token[r]
    /\ token' = [token EXCEPT ![r] = TRUE]
    /\ cancelInFlight' = [cancelInFlight EXCEPT ![r] =
                              {f \in AllFiles : ppc[r][f] = "remote"}]
    /\ UNCHANGED <<norm, api, content, sinkVars, rpc, index, results, skippedCount,
                   scannedCount, totalIssues, ppc, pcode, pret, single, outcome,
                   started, counted, settleSeq, reviewedOk, redundant, env>>

\* OpenFail without the try of executeWorkspaceReview around the loop: the
\* rejection of Promise.all leaves the command.
OpenFailPropagates(r, f) ==
    /\ ppc[r][f] = "open"
    /\ ppc' = [ppc EXCEPT ![r][f] = "rejected"]
    /\ outcome' = [outcome EXCEPT ![r][f] = "openfail"]
    /\ settleSeq' = [settleSeq EXCEPT ![r] = Append(@, f)]
    /\ rpc' = [rpc EXCEPT ![r] = IF @ = "await" THEN "rejected" ELSE @]
    /\ UNCHANGED <<norm, api, content, sinkVars, index, token, results, skippedCount,
                   scannedCount, totalIssues, pcode, pret, single, started,
                   counted, cancelInFlight, reviewedOk, redundant, env>>

\* openTextDocument(file) rejects.  The await is outside the pipeline's try:
\* the pipeline's promise rejects, Promise.all rejects with it, and the
\* exception leaves the loop and withProgress for the catch of
\* executeWorkspaceReview.  The other pipelines of the batch keep running.
OpenFail(r, f) ==
    /\ ppc[r][f] = "open"
    /\ ppc' = [ppc EXCEPT ![r][f] = "rejected"]
    /\ outcome' = [outcome EXCEPT ![r][f] = "openfail"]
    /\ settleSeq' = [settleSeq EXCEPT ![r] = Append(@, f)]
    /\ rpc' = [rpc EXCEPT ![r] = IF @ = "await" THEN "crashed" ELSE @]
    /\ UNCHANGED <<norm, api, content, sinkVars, index, token, results, skippedCount,
                   scannedCount, totalIssues, pcode, pret, single, started,
                   counted, cancelInFlight, reviewedOk, redundant, env>>

\* The pipeline ends without an outcome, counted as skipped.
SkipFile(r, f, why) ==
    /\ ppc' = [ppc EXCEPT ![r][f] = "fulfilled"]
    /\ pret' = [pret EXCEPT ![r][f] = NullOutcome]
    /\ skippedCount' = [skippedCount EXCEPT ![r] = @ + 1]
    /\ outcome' = [outcome EXCEPT ![r][f] = why]
    /\ counted' = [counted EXCEPT ![r] = @ \cup {f}]
    /\ settleSeq' = [settleSeq EXCEPT ![r] = Append(@, f)]
    /\ UNCHANGED <<sinkVars, totalIssues, redundant>>

\* The cache holds a record for the file's text: it is published again.
CacheHit(r, f, cached) ==
    /\ reviewStore' = [reviewStore EXCEPT ![f] = cached]
    /\ diagnostics' = [diagnostics EXCEPT ![f] = cached]
    /\ decorations' = decorations \cup {f}
    /\ skippedCount' = [skippedCount EXCEPT ![r] = @ + 1]
    /\ totalIssues' = [totalIssues EXCEPT ![r] = @ + cached.hints]
    /\ ppc' = [ppc EXCEPT ![r][f] = "fulfilled"]
    /\ pret' = [pret EXCEPT ![r][f] =
                    [uri |-> f, summary |-> cached.summary, hints |-> cached.hints]]
    /\ outcome' = [outcome EXCEPT ![r][f] = "hit"]
    /\ counted' = [counted EXCEPT ![r] = @ \cup {f}]
    /\ settleSeq' = [settleSeq EXCEPT ![r] = Append(@, f)]
    /\ UNCHANGED <<fileCache, redundant>>

\* No record is cached: the pipeline calls apiClient.reviewCode and awaits it.
CallRemote(r, f, code) ==
    /\ ppc' = [ppc EXCEPT ![r][f] = "remote"]
    /\ redundant' = (redundant \/ <<f, code>> \in reviewedOk)
    /\ UNCHANGED <<sinkVars, pret, skippedCount, totalIssues, outcome, counted,
                   settleSeq>>

\* openTextDocument(file) resolves: the pipeline runs from the ignored-file
\* test to its return or to `await this.apiClient.reviewCode(...)`.
OpenDone(r, f) ==
    /\ ppc[r][f] = "open"
    /\ LET code == content[f]
           cached == FileCacheGet(fileCache, PipelineCacheKey(f, code))
       IN
        /\ pcode' = [pcode EXCEPT ![r][f] = code]
        /\ IF isIgnoredFile(f) THEN SkipFile(r, f, "ignored")
           ELSE IF IsBlank(code) THEN SkipFile(r, f, "empty")
           ELSE IF cached # NoRecord THEN CacheHit(r, f, cached)
           ELSE CallRemote(r, f, code)
    /\ UNCHANGED <<norm, api, content, rpc, index, token, results, scannedCount, single,
                   started, cancelInFlight, reviewedOk, env>>

\* RemoteReturn adding to the tally it read before awaiting reviewCode (the
\* tally of the batches gathered so far), not to the tally of the moment.
RemoteReturnStaleTally(r, f, analysis) ==
    /\ ppc[r][f] = "remote"
    /\ LET parsed == ParseAnalysis(analysis, f, pcode[r][f])
           RECURSIVE Gathered(_)
           Gathered(n) == IF n = 0 THEN 0 ELSE Gathered(n - 1) + results[r][n].hints
       IN
        /\ reviewStore' = [reviewStore EXCEPT ![f] = parsed]
        /\ diagnostics' = [diagnostics EXCEPT ![f] = parsed]
        /\ fileCache' = CacheAfterReview(r, f, parsed)
        /\ decorations' = decorations \cup {f}
        /\ totalIssues' = [totalIssues EXCEPT ![r] = Gathered(Len(results[r])) + parsed.hints]
        /\ scannedCount' = [scannedCount EXCEPT ![r] = @ + 1]
        /\ pret' = [pret EXCEPT ![r][f] =
                        [uri |-> f, summary |-> "", hints |-> parsed.hints]]
    /\ ppc' = [ppc EXCEPT ![r][f] = "fulfilled"]
    /\ outcome' = [outcome EXCEPT ![r][f] = "scanned"]
    /\ counted' = [counted EXCEPT ![r] = @ \cup {f}]
    /\ settleSeq' = [settleSeq EXCEPT ![r] = Append(@, f)]
    /\ reviewedOk' = reviewedOk \cup {<<f, pcode[r][f]>>}
    /\ UNCHANGED <<norm, api, content, rpc, index, token, results, skippedCount, pcode,
                   single, started, cancelInFlight, redundant, env>>

\* reviewCode returns: the analysis is normalised, published to the store,
\* the diagnostics, the cache and the decorations, and counted.
RemoteReturn(r, f, analysis) ==
    /\ ppc[r][f] = "remote"
    /\ LET parsed == ParseAnalysis(analysis, f, pcode[r][f]) IN
        /\ reviewStore' = [reviewStore EXCEPT ![f] = parsed]
        /\ diagnostics' = [diagnostics EXCEPT ![f] = parsed]
        /\ fileCache' = CacheAfterReview(r, f, parsed)
        /\ decorations' = decorations \cup {f}
        /\ totalIssues' = [totalIssues EXCEPT ![r] = @ + parsed.hints]
        /\ scannedCount' = [scannedCount EXCEPT ![r] = @ + 1]
        \* `cached` is undefined on this path, so the summary is ''.
        /\ pret' = [pret EXCEPT ![r][f] =
                        [uri |-> f, summary |-> "", hints |-> parsed.hints]]
    /\ ppc' = [ppc EXCEPT ![r][f] = "fulfilled"]
    /\ outcome' = [outcome EXCEPT ![r][f] = "scanned"]
    /\ counted' = [counted EXCEPT ![r] = @ \cup {f}]
    /\ settleSeq' = [settleSeq EXCEPT ![r] = Append(@, f)]
    /\ reviewedOk' = reviewedOk \cup {<<f, pcode[r][f]>>}
    /\ UNCHANGED <<norm, api, content, rpc, index, token, results, skippedCount, pcode,
                   single, started, cancelInFlight, redundant, env>>

\* RemoteThrow in a pipeline that caches a placeholder record for the text
\* whose review failed.
RemoteThrowCachesPlaceholder(r, f) ==
    /\ ppc[r][f] = "remote"
    /\ ppc' = [ppc EXCEPT ![r][f] = "fulfilled"]
    /\ pret' = [pret EXCEPT ![r][f] = NullOutcome]
    /\ outcome' = [outcome EXCEPT ![r][f] = "failed"]
    /\ settleSeq' = [settleSeq EXCEPT ![r] = Append(@, f)]
    /\ fileCache' = FileCacheSet(fileCache, PipelineCacheKey(f, pcode[r][f]),
                                 [summary |-> "failed", hints |-> 0, file |-> f,
                                  code |-> pcode[r][f]])
    /\ UNCHANGED <<norm, api, content, reviewStore, diagnostics, decorations, rpc,
                   index, token, results, skippedCount, scannedCount, totalIssues,
                   pcode, single, started, counted, cancelInFlight, reviewedOk,
                   redundant, env>>

\* RemoteThrow in a pipeline that clears the file's diagnostics on failure.
RemoteThrowClearsDiagnostics(r, f) ==
    /\ ppc[r][f] = "remote"
    /\ ppc' = [ppc EXCEPT ![r][f] = "fulfilled"]
    /\ pret' = [pret EXCEPT ![r][f] = NullOutcome]
    /\ outcome' = [outcome EXCEPT ![r][f] = "failed"]
    /\ settleSeq' = [settleSeq EXCEPT ![r] = Append(@, f)]
    /\ diagnostics' = [diagnostics EXCEPT ![f] = NoRecord]
    /\ UNCHANGED <<norm, api, content, fileCache, reviewStore, decorations, rpc, index,
                   token, results, skippedCount, scannedCount, totalIssues, pcode,
                   single, started, counted, cancelInFlight, reviewedOk, redundant,
                   env>>

\* reviewCode throws: the pipeline's catch logs the error and returns null.
RemoteThrow(r, f) ==
    /\ ppc[r][f] = "remote"
    /\ ppc' = [ppc EXCEPT ![r][f] = "fulfilled"]
    /\ pret' = [pret EXCEPT ![r][f] = NullOutcome]
    /\ outcome' = [outcome EXCEPT ![r][f] = "failed"]
    /\ settleSeq' = [settleSeq EXCEPT ![r] = Append(@, f)]
    /\ UNCHANGED <<norm, api, content, sinkVars, rpc, index, token, results, skippedCount,
                   scannedCount, totalIssues, pcode, single, started, counted,
                   cancelInFlight, reviewedOk, redundant, env>>

\* Gather at the first pipeline of the batch to be fulfilled, the others
\* still running.
GatherFirstSettled(r) ==
    /\ rpc[r] = "await"
    /\ LET batch == BatchSlice(index[r]) IN
        /\ \E i \in 1..Len(batch) : ppc[r][batch[i]] = "fulfilled"
        /\ results' = [results EXCEPT ![r] = @ \o NonNull(PromiseAllValues(r, batch))]
    /\ index' = [index EXCEPT ![r] = @ + CONCURRENCY_LIMIT]
    /\ rpc' = [rpc EXCEPT ![r] = "loop"]
    /\ UNCHANGED <<norm, api, content, sinkVars, token, skippedCount, scannedCount,
                   totalIssues, ppc, pcode, pret, single, histVars, env>>

\* Promise.all resolves (every pipeline of the batch is fulfilled): the
\* non-null values are pushed to results and the loop steps to the next batch.
Gather(r) ==
    /\ rpc[r] = "await"
    /\ LET batch == BatchSlice(index[r]) IN
        /\ \A i \in 1..Len(batch) : ppc[r][batch[i]] = "fulfilled"
        /\ results' = [results EXCEPT ![r] = @ \o NonNull(PromiseAllValues(r, batch))]
    /\ index' = [index EXCEPT ![r] = @ + CONCURRENCY_LIMIT]
    /\ rpc' = [rpc EXCEPT ![r] = "loop"]
    /\ UNCHANGED <<norm, api, content, sinkVars, token, skippedCount, scannedCount,
                   totalIssues, ppc, pcode, pret, single, histVars, env>>


\* ------------------------------------------------ the single-file review

\* execute() with the active file as its target, up to
\* `await this.apiClient.checkBackendHealth()`; an empty file ends it at once.
ExecuteFile(ed) ==
    /\ env.singles > 0
    /\ single.pc = "idle"
    /\ getReviewTarget(ed, env.folders) = "file"
    /\ isSupportedFile(ed) /\ ~isIgnoredFile(ed)
    /\ single' = IF IsBlank(content[ed]) THEN Idle
                 ELSE [pc |-> "health", file |-> ed, code |-> content[ed]]
    /\ env' = Spend("singles")
    /\ UNCHANGED <<norm, api, content, sinkVars, rpc, index, token, results, skippedCount,
                   scannedCount, totalIssues, ppc, pcode, pret, histVars>>

\* The health check answers: the review call is issued, or execute() returns.
SingleHealth(isHealthy) ==
    /\ single.pc = "health"
    /\ single' = IF isHealthy THEN [single EXCEPT !.pc = "remote"] ELSE Idle
    /\ redundant' = (redundant \/ (isHealthy /\ <<single.file, single.code>> \in reviewedOk))
    /\ UNCHANGED <<norm, api, content, sinkVars, rpc, index, token, results, skippedCount,
                   scannedCount, totalIssues, ppc, pcode, pret, outcome, started,
                   counted, settleSeq, cancelInFlight, reviewedOk, env>>

\* A single-file return that hands the record to the review store alone.
SingleRemoteReturnStoreOnly(analysis) ==
    /\ single.pc = "remote"
    /\ reviewStore' = [reviewStore EXCEPT ![single.file] =
                           ParseAnalysis(analysis, single.file, single.code)]
    /\ reviewedOk' = reviewedOk \cup {<<single.file, single.code>>}
    /\ single' = Idle
    /\ UNCHANGED <<norm, api, content, fileCache, diagnostics, decorations, rpc,
                   index, token, results, skippedCount, scannedCount,
                   totalIssues, ppc, pcode, pret, outcome, started, counted,
                   settleSeq, cancelInFlight, redundant, env>>

\* reviewCode returns: the analysis is normalised and handed to the review
\* store and the diagnostics.
SingleRemoteReturn(analysis) ==
    /\ single.pc = "remote"
    /\ LET parsed == ParseAnalysis(analysis, single.file, single.code) IN
        /\ reviewStore' = [reviewStore EXCEPT ![single.file] = parsed]
        /\ diagnostics' = [diagnostics EXCEPT ![single.file] = parsed]
    /\ reviewedOk' = reviewedOk \cup {<<single.file, single.code>>}
    /\ single' = Idle
    /\ UNCHANGED <<norm, api, content, fileCache, decorations, rpc, index, token, results,
                   skippedCount, scannedCount, totalIssues, ppc, pcode, pret,
                   outcome, started, counted, settleSeq, cancelInFlight,
                   redundant, env>>

\* reviewCode throws: the catch of execute() reports the failure.
SingleRemoteThrow ==
    /\ single.pc = "remote"
    /\ single' = Idle
    /\ UNCHANGED <<norm, api, content, sinkVars, rpc, index, token, results, skippedCount,
                   scannedCount, totalIssues, ppc, pcode, pret, histVars, env>>

\* execute() with nothing to review: the status message is posted (and a
\* line logged), and execute() returns.
ExecuteNone(ed) ==
    /\ getReviewTarget(ed, env.folders) = "none"
    /\ env' = [env EXCEPT !.statusBar = NoTargetMessage]
    /\ UNCHANGED <<norm, api, content, sinkVars, rpc, index, token, results,
                   skippedCount, scannedCount, totalIssues, ppc, pcode, pret,
                   single, histVars>>

\* ------------------------------------------------------- the environment

\* The user brings another editor to the front, or closes the editors (0).
Focus(ed) ==
    /\ ed # env.editor
    /\ env' = [env EXCEPT !.editor = ed]
    /\ UNCHANGED <<norm, api, content, sinkVars, rpc, index, token, results,
                   skippedCount, scannedCount, totalIssues, ppc, pcode, pret,
                   single, histVars>>

\* The user changes the text of a candidate file.
Edit(f, c) ==
    /\ env.edits > 0
    /\ c # content[f]
    /\ content' = [content EXCEPT ![f] = c]
    /\ env' = Spend("edits")
    /\ UNCHANGED <<norm, api, sinkVars, rpc, index, token, results, skippedCount,
                   scannedCount, totalIssues, ppc, pcode, pret, single, histVars>>

\* ------------------------------------------------ normalisation, alone

\* The variables of the review orchestration.
reviewVars ==
    <<content, sinkVars, rpc, index, token, results, skippedCount, scannedCount,
      totalIssues, ppc, pcode, pret, single, histVars, env>>

\* execute(), from the answer of reviewCode to the record handed to
\* reviewStore.set and diagnostics.update.
NormalizeFile(analysis, reading) ==
    /\ norm.pc = "idle"
    /\ norm' = [pc |-> "done", path |-> "file", analysis |-> analysis,
                reading |-> reading, raised |-> NormalizeRaises(analysis),
                parsed |-> Normalize("file", analysis, reading)]
    /\ UNCHANGED <<reviewVars, api>>

\* The pipeline of executeWorkspaceReview, from the answer of reviewCode to
\* the record handed to reviewStore.set, diagnostics.update and fileCache.set.
NormalizeWorkspace(analysis, reading) ==
    /\ norm.pc = "idle"
    /\ norm' = [pc |-> "done", path |-> "workspace", analysis |-> analysis,
                reading |-> reading, raised |-> NormalizeRaises(analysis),
                parsed |-> Normalize("workspace", analysis, reading)]
    /\ UNCHANGED <<reviewVars, api>>

\* --------------------------------------------- ApiClient.reviewCode, alone

\* reviewCode(code, language) is called: the loop starts and the first POST
\* is awaited.
ReviewCode ==
    /\ api.pc = "idle"
    /\ api' = [ApiIdle EXCEPT !.pc = "post", !.posts = 1]
    /\ UNCHANGED <<reviewVars, norm>>

\* The POST is answered with a 2xx status: return response.data.
PostOk ==
    /\ api.pc = "post"
    /\ api' = [api EXCEPT !.pc = "returned"]
    /\ UNCHANGED <<reviewVars, norm>>

\* PostFails with the same delay before every retry.
PostFailsFixedDelay(err) ==
    /\ api.pc = "post"
    /\ LET noted == [api EXCEPT !.errors = Append(@, err), !.shown = @ + 1] IN
        api' =
            IF IsTransient(err)
            THEN IF api.attempt < maxRetries
                 THEN [noted EXCEPT !.pc = "delay", !.delays = Append(@, 1000)]
                 ELSE [noted EXCEPT !.pc = "threw",
                                    !.thrown = [kind |-> "Cannot connect to backend server",
                                                detail |-> ""]]
            ELSE IF err.axios /\ err.status # 0
                 THEN [noted EXCEPT !.pc = "threw", !.thrown = ResponseError(err)]
                 ELSE [noted EXCEPT !.pc = "threw",
                                    !.thrown = [kind |-> "lastError.message", detail |-> ""]]
    /\ UNCHANGED <<reviewVars, norm>>

\* The POST throws: the catch block notes the error, shows the error message
\* and then waits before the next attempt, or throws.
PostFails(err) ==
    /\ api.pc = "post"
    /\ LET noted == [api EXCEPT !.errors = Append(@, err), !.shown = @ + 1] IN
        api' =
            IF IsTransient(err)
            THEN IF api.attempt < maxRetries
                 THEN [noted EXCEPT !.pc = "delay",
                                    !.delays = Append(@, 1000 * (api.attempt + 1))]
                 ELSE [noted EXCEPT !.pc = "threw",
                                    !.thrown = [kind |-> "Cannot connect to backend server",
                                                detail |-> ""]]
            ELSE IF err.axios /\ err.status # 0
                 THEN [noted EXCEPT !.pc = "threw", !.thrown = ResponseError(err)]
                 ELSE [noted EXCEPT !.pc = "threw",
                                    !.thrown = [kind |-> "lastError.message", detail |-> ""]]
    /\ UNCHANGED <<reviewVars, norm>>

\* The timer of the retry delay fires: `continue`, attempt++, the next POST.
DelayElapsedSameAttempt ==
    /\ api.pc = "delay"
    /\ api' = [api EXCEPT !.pc = "post", !.posts = @ + 1]
    /\ UNCHANGED <<reviewVars, norm>>
DelayElapsed ==
    /\ api.pc = "delay"
    /\ api' = [api EXCEPT !.pc = "post", !.attempt = @ + 1, !.posts = @ + 1]
    /\ UNCHANGED <<reviewVars, norm>>

\* ------------------------------------------------ the URLs of the client

\* The longest path of a configured backend URL, in segments.
MaxPath == 3

\* A URL on the backend's origin: the segments of its path, and whether it
\* ends in a slash.
Url(path, slash) == [path |-> path, slash |-> slash]

Segments == {"api", "review", "health"}

\* The paths of at most n segments.
RECURSIVE PathsUpTo(_)
PathsUpTo(n) ==
    IF n = 0 THEN {<<>>}
    ELSE LET shorter == PathsUpTo(n - 1) IN
         shorter \cup {Append(q, sg) : q \in shorter, sg \in Segments}

Urls == {Url(q, sl) : q \in PathsUpTo(MaxPath), sl \in BOOLEAN}

\* 'https://ai-code-mentor-p61w.onrender.com'
DefaultApiUrl == Url(<<>>, FALSE)

\* What config.get('apiUrl') can give: nothing, or a URL.
ConfigValues == {Undefined} \cup Urls

\* url.endsWith('/' + segs[1] + '/' + ... )
EndsWith(url, segs) ==
    /\ ~url.slash
    /\ Len(url.path) >= Len(segs)
    /\ SubSeq(url.path, Len(url.path) - Len(segs) + 1, Len(url.path)) = segs

\* url.replace(/\/$/, '')
StripSlash(url) == Url(url.path, FALSE)

\* The URL reviewCode posts to.
ReviewUrl(apiUrl) ==
    IF EndsWith(apiUrl, <<"review">>) THEN apiUrl
    ELSE Url(Append(StripSlash(apiUrl).path, "review"), FALSE)

\* The URL checkBackendHealth gets: apiUrl.replace(/\/api\/review$/, '/health')
HealthUrl(apiUrl) ==
    IF EndsWith(apiUrl, <<"api", "review">>)
    THEN Url(Append(SubSeq(apiUrl.path, 1, Len(apiUrl.path) - 2), "health"), FALSE)
    ELSE apiUrl

\* The handler of the backend a request reaches: the health route, the
\* router mounted under /api, or the 404 handler.  Express matches a route
\* with or without a trailing slash.
Route(method, url) ==
    IF method = "GET" /\ url.path = <<"health">> THEN "health"
    ELSE IF Len(url.path) >= 1 /\ url.path[1] = "api" THEN "reviewRoutes"
    ELSE "notFound"

\* new ApiClient(): the configured URL, or the default.
Construct(cfg) ==
    /\ api.pc = "idle"
    /\ api' = [pc |-> "constructed",
               apiUrl |-> IF cfg = Undefined THEN DefaultApiUrl ELSE cfg]
    /\ UNCHANGED <<reviewVars, norm>>

\* The request `method url` is sent and reaches a handler of the backend.
Send(method, url) ==
    /\ api' = [pc |-> "sent", apiUrl |-> api.apiUrl, method |-> method,
               url |-> url, route |-> Route(method, url)]
    /\ UNCHANGED <<reviewVars, norm>>

\* reviewCode: axios.post(url, ...).
PostReview ==
    /\ api.pc = "constructed"
    /\ Send("POST", ReviewUrl(api.apiUrl))

\* checkBackendHealth: axios.get(...).
GetHealth ==
    /\ api.pc = "constructed"
    /\ Send("GET", HealthUrl(api.apiUrl))

\* ------------------------------------------------------------------ Next

\* What the active editor can show: a file of the workspace, or nothing (0).
Editors == env.files \cup {0}

\* The steps of workspace reviews.
NextReview ==
    \/ \E r \in Runs, ed \in Editors : ExecuteWorkspace(r, ed)
    \/ \E r \in Runs : Discovered(r)
    \/ \E r \in Runs : StartBatch(r)
    \/ \E r \in Runs : Finish(r)
    \/ \E r \in Runs : Cancel(r)
    \/ \E r \in Runs, f \in AllFiles : OpenFail(r, f)
    \/ \E r \in Runs, f \in AllFiles : OpenDone(r, f)
    \/ \E r \in Runs, f \in AllFiles, a \in RemoteResponses : RemoteReturn(r, f, a)
    \/ \E r \in Runs, f \in AllFiles : RemoteThrow(r, f)
    \/ \E r \in Runs : Gather(r)

\* The steps of workspace reviews and the user's edits.
NextCache ==
    \/ NextReview
    \/ \E f \in SeqToSet(targetFiles), c \in Contents : Edit(f, c)

Next ==
    \/ NextCache
    \/ \E ed \in Editors : ExecuteFile(ed)
    \/ \E h \in BOOLEAN : SingleHealth(h)
    \/ \E a \in RemoteResponses : SingleRemoteReturn(a)
    \/ SingleRemoteThrow

\* Workspace reviews one at a time, single-file reviews and edits over a
\* workspace of SmallFiles candidate files.
Spec == Init /\ [][Next]_vars

\* One workspace review at a time over NumFiles candidate files, with
\* cancellation and failures.
SpecReview == InitReview /\ [][NextReview]_vars

\* Two workspace reviews that may overlap, over SmallFiles candidate files.
SpecOverlap == InitOverlap /\ [][NextReview]_vars

\* Workspace reviews one at a time and edits, over CacheFiles candidate files.
SpecCache == InitCache /\ [][NextCache]_vars

\* The steps of workspace reviews and of single-file reviews.
NextEligible ==
    \/ NextReview
    \/ \E ed \in Editors : ExecuteFile(ed)
    \/ \E h \in BOOLEAN : SingleHealth(h)
    \/ \E a \in RemoteResponses : SingleRemoteReturn(a)
    \/ SingleRemoteThrow

\* One workspace review at a time and single-file reviews, over
\* EligibleFiles candidate files of any text, without edits.
SpecEligible == InitEligible /\ [][NextEligible]_vars

\* The normalisation of one analysis, in the single-file command or in the
\* workspace review, for every payload and both readings of parseReviewText.
NextNormalize ==
    \/ \E a \in Payloads, rd \in Readings : NormalizeFile(a, rd)
    \/ \E a \in Payloads, rd \in Readings : NormalizeWorkspace(a, rd)

SpecNormalize == InitNormalize /\ [][NextNormalize]_vars

\* One call of reviewCode, every POST of it answered or failing in any way.
NextApi ==
    \/ ReviewCode
    \/ PostOk
    \/ \E err \in PostErrors : PostFails(err)
    \/ DelayElapsed

SpecApi == InitApi /\ [][NextApi]_vars

\* One call of reviewCode in which every POST settles (axios answers, fails
\* or times out) and every timer fires.
SpecApiLive ==
    /\ InitApi
    /\ [][NextApi]_vars
    /\ WF_vars(PostOk \/ \E err \in PostErrors : PostFails(err))
    /\ WF_vars(DelayElapsed)

\* One client on any configured URL, sending its review request or its
\* health check to the backend.
NextUrl ==
    \/ \E cfg \in ConfigValues : Construct(cfg)
    \/ PostReview
    \/ GetHealth

SpecUrl == InitApi /\ [][NextUrl]_vars

\* The review command invoked on whatever the window shows: the active
\* editor is state of the environment, and the workspace may have no folder.
InitTarget ==
    \E folders \in BOOLEAN :
        InitWith([Env(EligibleFiles, {"r1"}, ReviewStarts, 0, MaxSingle)
                      EXCEPT !.folders = folders])

NextTarget ==
    \/ \E ed \in Editors : Focus(ed)
    \/ \E r \in Runs : ExecuteWorkspace(r, env.editor)
    \/ ExecuteFile(env.editor)
    \/ ExecuteNone(env.editor)
    \/ \E r \in Runs : Discovered(r)
    \/ \E r \in Runs : StartBatch(r)
    \/ \E r \in Runs : Finish(r)
    \/ \E r \in Runs, f \in AllFiles : OpenFail(r, f)
    \/ \E r \in Runs, f \in AllFiles : OpenDone(r, f)
    \/ \E r \in Runs, f \in AllFiles, a \in RemoteResponses : RemoteReturn(r, f, a)
    \/ \E r \in Runs, f \in AllFiles : RemoteThrow(r, f)
    \/ \E r \in Runs : Gather(r)
    \/ \E h \in BOOLEAN : SingleHealth(h)
    \/ \E a \in RemoteResponses : SingleRemoteReturn(a)
    \/ SingleRemoteThrow

SpecTarget == InitTarget /\ [][NextTarget]_vars

\* Two workspace reviews, possibly overlapping and never cancelled, over
\* CacheFiles candidate files whose text does not change.
InitRetry ==
    InitWith(Env(CacheFiles, Runs, CacheStarts, 0, 0))

\* The steps of workspace reviews that nobody cancels.
NextRetry ==
    \/ \E r \in Runs, ed \in Editors : ExecuteWorkspace(r, ed)
    \/ \E r \in Runs : Discovered(r)
    \/ \E r \in Runs : StartBatch(r)
    \/ \E r \in Runs : Finish(r)
    \/ \E r \in Runs, f \in AllFiles : OpenFail(r, f)
    \/ \E r \in Runs, f \in AllFiles : OpenDone(r, f)
    \/ \E r \in Runs, f \in AllFiles, a \in RemoteResponses : RemoteReturn(r, f, a)
    \/ \E r \in Runs, f \in AllFiles : RemoteThrow(r, f)
    \/ \E r \in Runs : Gather(r)

SpecRetry == InitRetry /\ [][NextRetry]_vars

\* ----------------------------------------------------------------- claims

\* Position of a file in the discovered candidate list.
PosOf(f) == CHOOSE i \in 1..Len(targetFiles) : targetFiles[i] = f

\* Remote review calls of a workspace review that have started and not ended.
InFlight(r) == {f \in AllFiles : ppc[r][f] = "remote"}

ResultUris(r) == {results[r][i].uri : i \in 1..Len(results[r])}

\* The workspace review r is between two batches or past its loop: every
\* batch it started was gathered by Promise.all.
AtBoundary(r) == rpc[r] \in {"loop", "done", "noresults"}

\* C1: during a workspace review over more than CONCURRENCY_LIMIT candidate
\* files, at most CONCURRENCY_LIMIT remote review calls are in flight at any
\* time.
C1_ConcurrencyBound ==
    \A r \in Runs : Cardinality(InFlight(r)) <= CONCURRENCY_LIMIT

\* C1 witness: a review over more than CONCURRENCY_LIMIT files has
\* CONCURRENCY_LIMIT calls in flight.
C1_Witness ==
    \E r \in Runs :
        /\ Len(targetFiles) > CONCURRENCY_LIMIT
        /\ Cardinality(InFlight(r)) = CONCURRENCY_LIMIT

\* C2: a workspace review that has ended without the user having cancelled it
\* has processed every candidate file, whatever failed on the way (a file that
\* could not be opened, a remote call that threw).
C2_FailureNeverStopsRun ==
    \A r \in Runs :
        (rpc[r] \in {"done", "noresults", "crashed"} /\ ~token[r])
            => started[r] = SeqToSet(targetFiles)

\* C3: once its batch is gathered, a file whose remote call failed is in the
\* outcome list or has incremented one of the session counters.
C3_FailureRecordedAndCounted ==
    \A r \in Runs : \A f \in AllFiles :
        (outcome[r][f] = "failed" /\ AtBoundary(r))
            => (f \in ResultUris(r) \/ f \in counted[r])

\* C4: once cancellation is requested and the review stands between two
\* batches (or has left the loop), no further pipeline is started, no pipeline
\* changes, and the outcome list stays what the completed batches made it,
\* for as long as that review lasts.
C4_CancelStopsLaterBatches ==
    [][\A r \in Runs :
          (token[r] /\ AtBoundary(r) /\ rpc'[r] # "discover")
              => /\ started'[r] = started[r]
                 /\ ppc'[r] = ppc[r]
                 /\ results'[r] = results[r]
                 /\ AtBoundary(r)']_vars

\* C4 witness: a review cancelled between two batches has ended with the
\* outcomes of its completed batches and with candidate files never started.
C4_Witness ==
    \E r \in Runs :
        /\ token[r]
        /\ rpc[r] = "done"
        /\ Len(results[r]) > 0
        /\ started[r] # SeqToSet(targetFiles)
        /\ cancelInFlight[r] = {}

\* C5: a remote call in flight when cancellation is requested completes as
\* any other: when it succeeds its record is in the review store, the
\* diagnostics and the cache under the file and the text it was computed
\* from, and once Promise.all has gathered the batch its outcome is in the
\* outcome list.
C5_InFlightCompletes ==
    \A r \in Runs : \A f \in cancelInFlight[r] :
        outcome[r][f] = "scanned" =>
            /\ reviewStore[f] # NoRecord
            /\ reviewStore[f].file = f /\ reviewStore[f].code = pcode[r][f]
            /\ diagnostics[f] = reviewStore[f]
            /\ fileCache[<<f, pcode[r][f]>>] = reviewStore[f]
            /\ AtBoundary(r) => \E i \in 1..Len(results[r]) : results[r][i] = pret[r][f]

\* C5 witness: a call that was in flight when Cancel was pressed has succeeded
\* and its outcome is in the outcome list of the ended review.
C5_Witness ==
    \E r \in Runs : \E f \in cancelInFlight[r] :
        /\ outcome[r][f] = "scanned"
        /\ rpc[r] = "done"
        /\ f \in ResultUris(r)

\* C6: the outcomes of the outcome list are in file-discovery order, whatever
\* the order in which the pipelines of a batch completed.
C6_DiscoveryOrder ==
    \A r \in Runs : \A i, j \in 1..Len(results[r]) :
        i < j => PosOf(results[r][i].uri) < PosOf(results[r][j].uri)

\* C6 witness: two files of a batch settled against their discovery order and
\* both have an outcome in the list.
C6_Witness ==
    \E r \in Runs : \E i, j \in 1..Len(settleSeq[r]) :
        /\ i < j
        /\ PosOf(settleSeq[r][i]) > PosOf(settleSeq[r][j])
        /\ {settleSeq[r][i], settleSeq[r][j]} \subseteq ResultUris(r)

\* C7: once a file has been reviewed successfully, no review of the same file
\* with the same text, by the single-file command or by the workspace review,
\* issues a remote call.
C7_NoSecondRemoteCall == ~redundant

\* C8: a pipeline of the workspace review ends as a cache hit only with a
\* record computed from the very text it read, after a successful review of
\* that text: a file whose text changed since its review is reviewed afresh.
C8_ChangedContentForcesFreshCall ==
    \A r \in Runs : \A f \in AllFiles :
        outcome[r][f] = "hit" =>
            /\ <<f, pcode[r][f]>> \in reviewedOk
            /\ reviewStore[f].file = f
            /\ reviewStore[f].code = pcode[r][f]

\* C8 witness: a file reviewed and cached with one text is reviewed afresh,
\* by a new remote call, after its text changed.
C8_Witness ==
    \E r \in Runs : \E f \in AllFiles : \E c \in Contents :
        /\ c # pcode[r][f]
        /\ fileCache[<<f, c>>] # NoRecord
        /\ outcome[r][f] = "scanned"
        /\ fileCache[<<f, pcode[r][f]>>].code = pcode[r][f]

\* C9: every cache entry lies under the identity of the file it was computed
\* for, a cache hit returns a record of the file's own earlier review, and a
\* file with the same text as a cached file of its batch still issues its own
\* remote call.
C9_OwnIdentityKey ==
    /\ \A k \in CacheKeys :
          fileCache[k] # NoRecord => (fileCache[k].file = k[1] /\ fileCache[k].code = k[2])
    /\ \A r \in Runs : \A f \in AllFiles :
          outcome[r][f] = "hit" => (reviewStore[f].file = f /\ <<f, pcode[r][f]>> \in reviewedOk)

\* C9 witness: two files of one batch with the same text have each been
\* reviewed by their own remote call, the second settling after the first
\* was cached, and each is cached under its own identity.
C9_Witness ==
    \E r \in Runs : \E f, g \in SeqToSet(targetFiles) :
        /\ f # g
        /\ PosOf(f) <= CONCURRENCY_LIMIT /\ PosOf(g) <= CONCURRENCY_LIMIT
        /\ outcome[r][f] = "scanned" /\ outcome[r][g] = "scanned"
        /\ pcode[r][f] = pcode[r][g]
        /\ fileCache[<<f, pcode[r][f]>>].file = f
        /\ fileCache[<<g, pcode[r][g]>>].file = g

\* C10: no two pipelines are at the same time computing a remote review for
\* the same (file, text) key.
C10_AtomicCheckAndWrite ==
    \A r1, r2 \in Runs : \A f \in AllFiles :
        (r1 # r2 /\ ppc[r1][f] = "remote" /\ ppc[r2][f] = "remote")
            => pcode[r1][f] # pcode[r2][f]

\* A normalisation has run: norm.parsed is the record handed to the sinks.
NormDone == norm.pc = "done"

\* The value the payload stands for: what a JSON text encodes, or the
\* payload itself.
PayloadValue ==
    IF norm.analysis.t = "string" /\ norm.analysis.json # SyntaxError
    THEN norm.analysis.json
    ELSE norm.analysis

\* The payload is an object, as such or as its JSON text.
PayloadIsObject == PayloadValue.t = "object"

\* The payload is a text that is not JSON.
PayloadIsPlainText ==
    /\ norm.analysis.t = "string"
    /\ norm.analysis.json = SyntaxError
    /\ norm.analysis # Str("")

\* C11: the record of a well-formed JSON payload whose score is 0, and whose
\* review text (if any) holds no rating, has score 0, in the single-file
\* command and in the workspace review.
C11_ExplicitZeroKept ==
    (/\ NormDone
     /\ PayloadIsObject
     /\ PayloadValue.score = Num(0)
     /\ PayloadValue.review \in {Undefined, Str(PlainText)})
        => norm.parsed.score = Num(0)

\* C12: the score of every record handed to the review store, the diagnostics
\* or the cache is an integer between 0 and 10, whatever the payload's score.
C12_ScoreInRange ==
    NormDone =>
        /\ norm.parsed.score.t = "number"
        /\ norm.parsed.score.tenths % 10 = 0
        /\ norm.parsed.score.tenths \in 0..100

PlaceholderSummaries ==
    {SummaryPlaceholder("file"), SummaryPlaceholder("workspace"),
     Fallback("file", Undefined).summary, Fallback("workspace", Undefined).summary}

C15_ExplicitFieldsWin ==
    (NormDone /\ PayloadIsObject /\ Truthy(PayloadValue.review)) =>
        /\ (PayloadValue.score.t = "number" /\ PayloadValue.score # Num(0))
              => norm.parsed.score = PayloadValue.score
        /\ PayloadValue.summary.t = "string"
              => norm.parsed.summary = PayloadValue.summary

\* C15, amended: when the payload carries a review text next to explicit
\* fields, the output of the text parser wins: the score is the rating of
\* the text, the payload's score being used only when the text holds no
\* rating, and the summary is the parser's whenever that is not empty.
C15_ParserOutputWins ==
    (NormDone /\ PayloadIsObject /\ Truthy(PayloadValue.review)) =>
        LET rating == TextRating(PayloadValue.review, norm.reading)
            summary == TextSummary(PayloadValue.review, norm.reading)
        IN /\ rating # Null => norm.parsed.score = rating
           /\ (rating = Null /\ PayloadValue.score.t = "number"
                  /\ PayloadValue.score # Num(0))
                 => norm.parsed.score = PayloadValue.score
           /\ Truthy(summary) => norm.parsed.summary = summary

\* C15 witness: a payload with score 7, summary "ok" and a review text rated
\* 8/10 was normalised to a record with the score and the summary of the text.
C15_Witness ==
    /\ NormDone
    /\ PayloadIsObject
    /\ PayloadValue.score = Num(70)
    /\ PayloadValue.summary = Str("ok")
    /\ PayloadValue.review = Str(RatedText)
    /\ norm.parsed.score = Num(80)
    /\ norm.parsed.summary = Str(RatedText)

\* The issues the bugs of a payload stand for: one per bug, in order, with
\* the bug's message as text and its line.
IssuesOf(bugs) ==
    IF IsArray(bugs)
    THEN Arr([i \in 1..Len(bugs.items) |->
                 [text |-> bugs.items[i].message, line |-> bugs.items[i].line]])
    ELSE Arr(<<>>)

\* C16: the record of a well-formed JSON object without a review text has the
\* payload's score, its summary, and one issue per bug.
C16_StructuredContentCarried ==
    (/\ NormDone
     /\ PayloadIsObject
     /\ PayloadValue.review = Undefined
     /\ PayloadValue.score = Num(70)
     /\ PayloadValue.summary = Str("ok"))
        => /\ norm.parsed.score = Num(70)
           /\ norm.parsed.summary = Str("ok")
           /\ norm.parsed.issues = IssuesOf(PayloadValue.bugs)

RawHoldsPayload(raw) ==
    CASE PayloadValue.t \in {"undefined", "null"} -> TRUE
      [] PayloadIsObject ->
            /\ raw.t = "string"
            /\ raw.json.t = "object"
            /\ \A k \in Fields :
                  PayloadValue[k] # Undefined => raw.json[k] = PayloadValue[k]
      [] OTHER -> raw \in {norm.analysis, JSONstringify(norm.analysis)}

\* C18: raw is always present and is the original payload as text, with no
\* part of the payload missing, fields the normaliser does not know included.
C18_RawIsOriginalPayload ==
    NormDone =>
        /\ norm.parsed.raw # Undefined
        /\ RawHoldsPayload(norm.parsed.raw)

\* The text is empty or holds white space only.
EmptyOrWhitespace(code) == code \in {"", " "}

\* The filters turn the file away: its extension is not in the allow-list,
\* its basename is in the ignored set, or a part of its path is an ignored
\* directory.
Ineligible(f) == isIgnoredFile(f) \/ ~isSupportedFile(f) \/ isIgnoredPath(f)

\* No remote review call is awaited (or about to be issued, after the health
\* check) for an ineligible file or for a blank text, and no sink holds
\* anything for an ineligible file.
NoCallForSkipped ==
    /\ \A r \in Runs : \A f \in AllFiles :
          ppc[r][f] = "remote" => (~Ineligible(f) /\ ~EmptyOrWhitespace(pcode[r][f]))
    /\ single.pc \in {"health", "remote"}
          => (~Ineligible(single.file) /\ ~EmptyOrWhitespace(single.code))
    /\ \A f \in AllFiles :
          Ineligible(f) =>
              /\ reviewStore[f] = NoRecord /\ diagnostics[f] = NoRecord
              /\ f \notin decorations
              /\ \A c \in Contents : fileCache[<<f, c>>] = NoRecord

\* The step in which a pipeline ends as skipped (ignored or empty file), or
\* in which the single-file command returns at once, changes no sink.
SkipChangesNoSink ==
    (\/ \E r \in Runs : \E f \in AllFiles :
           /\ outcome'[r][f] \in {"ignored", "empty"}
           /\ outcome[r][f] \notin {"ignored", "empty"}
     \/ (env'.singles < env.singles /\ single'.pc = "idle"))
        => UNCHANGED sinkVars

\* C19: neither the single-file command nor the workspace review issues a
\* remote review call for an ineligible file or for a file whose text is empty
\* or blank; such a file is skipped and the review store, the diagnostics and
\* the cache stay as they were.
C19_NoCallForIneligibleOrEmpty ==
    []NoCallForSkipped /\ [][SkipChangesNoSink]_vars

\* C19 witness: a workspace review has ended in which a blank file was
\* skipped and counted as skipped, nothing being stored for it.
C19_Witness ==
    \E r \in Runs : \E f \in SeqToSet(targetFiles) :
        /\ rpc[r] = "noresults"
        /\ outcome[r][f] = "empty"
        /\ EmptyOrWhitespace(pcode[r][f])
        /\ skippedCount[r] = 1
        /\ reviewStore[f] = NoRecord
        /\ fileCache[<<f, pcode[r][f]>>] = NoRecord

\* C20: reviewCode makes a further attempt only after an error with one of
\* the four transient codes: an error that carries a response, or any other
\* error, is the last one of the call, which throws without another POST.
C20_RetryOnlyTransient ==
    \A i \in 1..Len(api.errors) :
        /\ i < Len(api.errors) => api.errors[i].code \in TransientCodes
        /\ api.errors[i].code \notin TransientCodes =>
              /\ i = Len(api.errors)
              /\ api.pc = "threw"
              /\ api.posts = i

\* C20 witness: after one transient error the second POST was answered with
\* status 500, and the call threw without a third POST.
C20_Witness ==
    /\ api.pc = "threw"
    /\ Len(api.errors) = 2
    /\ api.errors[1].code = "ECONNREFUSED"
    /\ api.errors[2].status = 500
    /\ api.posts = 2

\* C21: a call of reviewCode issues at most maxRetries + 1 POSTs and, every
\* POST settling, ends by returning or by throwing; when every one of its
\* maxRetries + 1 attempts failed with a transient error it has thrown
\* 'Cannot connect to backend server'.
C21_BoundedAttemptsAndTermination ==
    /\ [](api.posts <= maxRetries + 1)
    /\ []((/\ Len(api.errors) = maxRetries + 1
           /\ \A i \in 1..Len(api.errors) : api.errors[i].code \in TransientCodes)
             => (/\ api.pc = "threw"
                 /\ api.thrown.kind = "Cannot connect to backend server"))
    /\ (api.pc \in {"post", "delay"}) ~> (api.pc \in {"returned", "threw"})

\* C21 witness: three POSTs failed with transient errors and the call threw
\* 'Cannot connect to backend server'.
C21_Witness ==
    /\ api.pc = "threw"
    /\ api.posts = maxRetries + 1
    /\ \A i \in 1..Len(api.errors) : api.errors[i].code \in TransientCodes
    /\ api.thrown.kind = "Cannot connect to backend server"

\* The message of which `body` has no message field or is missing:
\* the body's message, or the fallback.
BodyMessageOr(body, fallback) ==
    IF body = "message" THEN "errorData.message" ELSE fallback

\* C22: when a POST is answered with a status outside 2xx, reviewCode throws
\* the message derived from the status and the body: 'Bad request: <message>'
\* for 400, the rate-limit message for 429, 'Server error: <message>' for
\* 500, else the body's message or 'Server returned error status <status>';
\* also when the body is absent or has no message.
C22_MessageFromStatusAndBody ==
    (api.pc = "threw" /\ api.errors[Len(api.errors)].status # 0) =>
        LET err == api.errors[Len(api.errors)] IN
        CASE err.status = 400 ->
                api.thrown = [kind |-> "Bad request: ",
                              detail |-> BodyMessageOr(err.body, "Invalid code provided")]
          [] err.status = 429 ->
                api.thrown.kind = "Rate limit exceeded. Please wait a moment and try again."
          [] err.status = 500 ->
                api.thrown = [kind |-> "Server error: ",
                              detail |-> BodyMessageOr(err.body, "The backend encountered an error")]
          [] OTHER ->
                api.thrown = [kind |-> "",
                              detail |-> BodyMessageOr(err.body, "Server returned error status")]

\* The position at which an operation awaits checkBackendHealth().
HealthAwait == "health"

\* This step issues a review call of the single-file command.
SingleCallIssued == single.pc # "remote" /\ single'.pc = "remote"

\* This step issues the review call of file f in workspace review r.
WorkspaceCallIssued(r, f) == ppc[r][f] # "remote" /\ ppc'[r][f] = "remote"

\* C23: a review call is issued, by the single-file command or by a pipeline
\* of the workspace review, only by an operation whose health check has
\* answered with success; and a failed health check ends the operation
\* without a review call and leaves the review store and the diagnostics
\* as they were.
C23_CallOnlyAfterHealthCheck ==
    [][/\ SingleCallIssued => single.pc = HealthAwait
       /\ \A r \in Runs, f \in AllFiles :
             WorkspaceCallIssued(r, f) => HealthAwait \in {rpc[r], ppc[r][f]}
       /\ (single.pc = HealthAwait /\ single'.pc = "idle") =>
             UNCHANGED <<reviewStore, diagnostics>>]_vars

\* The single-file part of C23 alone.
C23_SingleFileChecksHealth ==
    [][/\ SingleCallIssued => single.pc = HealthAwait
       /\ (single.pc = HealthAwait /\ single'.pc = "idle") =>
             UNCHANGED <<reviewStore, diagnostics>>]_vars

\* No workspace review ever awaits a health check.
C23_WorkspaceNeverChecksHealth ==
    \A r \in Runs, f \in AllFiles : HealthAwait \notin {rpc[r], ppc[r][f]}

\* C24: for every configured backend URL the review request is a POST to a
\* URL ending in /review and the health check a GET to a URL ending in
\* /health, and each reaches a route of the backend, not its 404 handler.
C24_RequestsReachRoutes ==
    api.pc = "sent" =>
        /\ api.route # "notFound"
        /\ api.method = "POST" => EndsWith(api.url, <<"review">>)
        /\ api.method = "GET" =>
              (EndsWith(api.url, <<"health">>) /\ api.route = "health")

\* The review request always goes to a URL ending in /review.
C24_PostEndsInReview ==
    (api.pc = "sent" /\ api.method = "POST") => EndsWith(api.url, <<"review">>)

\* On a base URL ending in /api/review both requests reach their routes.
C24_ApiReviewUrlWorks ==
    (api.pc = "sent" /\ EndsWith(api.apiUrl, <<"api", "review">>)
                    /\ Len(api.apiUrl.path) = 2) =>
        \/ api.method = "POST" /\ api.route = "reviewRoutes"
        \/ api.method = "GET" /\ api.route = "health"

\* On the default base URL neither request reaches a route.
C24_DefaultUrlReachesNoRoute ==
    (api.pc = "sent" /\ api.apiUrl = DefaultApiUrl) => api.route = "notFound"

\* The positions at which a command has returned to its caller, its promise
\* resolved.
ResolvedPositions == {"idle", "done", "noresults", "nofiles", "crashed"}

\* This step is a failure in workspace review r: a file could not be read,
\* or the review call of a file threw.
ReadFailed(r, f) == outcome[r][f] # "openfail" /\ outcome'[r][f] = "openfail"
CallFailed(r, f) == outcome[r][f] # "failed" /\ outcome'[r][f] = "failed"

ReviewStartedLogged == single.pc \in {"health", "remote"}

\* logger.error(`Failed to review ...`) has run for file f of review r.
FailureLogged(r, f) == outcome[r][f] = "failed"

\* This step changes what the cache holds for file f.
CacheChanged(f) ==
    \E c \in Contents : fileCache'[<<f, c>>] # fileCache[<<f, c>>]

\* This step changes what a sink or the cache holds for file f.
SinkChanged(f) ==
    \/ reviewStore'[f] # reviewStore[f]
    \/ diagnostics'[f] # diagnostics[f]
    \/ (f \in decorations') # (f \in decorations)
    \/ CacheChanged(f)

\* This step is the return of a review call for file f.
CallSucceeds(f) ==
    \/ \E r \in Runs : ppc[r][f] = "remote" /\ outcome'[r][f] = "scanned"
                           /\ ppc'[r][f] = "fulfilled"
    \/ single.pc = "remote" /\ single.file = f /\ single'.pc = "idle"
                            /\ <<f, single.code>> \in reviewedOk'

\* This step publishes the cached record of file f.
CacheHitPublishes(f) ==
    \E r \in Runs : ppc[r][f] = "open" /\ outcome'[r][f] = "hit"

\* The review call of the single-file command fails at this step.
SingleCallFails ==
    /\ single.pc = "remote" /\ single'.pc = "idle"
    /\ <<single.file, single.code>> \notin reviewedOk'

\* C26 as stated: nothing is logged for a file whose review call has not
\* succeeded, and the sinks and the cache change for a file only at the
\* return of its review call.
C26_NoEffectBeforeCallSucceeds ==
    /\ [](~ReviewStartedLogged)
    /\ [](\A r \in Runs, f \in AllFiles : ~FailureLogged(r, f))
    /\ [][\A f \in AllFiles : SinkChanged(f) => CallSucceeds(f)]_vars

\* C26, amended: the sinks and the cache change for a file only at the
\* return of its review call or when its cached record is published, and
\* the cache only at the return of a review call; a review call that fails
\* leaves the review store, the diagnostics, the decorations and the cache
\* as they were.
C26_SinksChangeOnlyOnSuccessOrHit ==
    [][/\ sinkVars' # sinkVars =>
             \A f \in AllFiles :
                 /\ SinkChanged(f) => (CallSucceeds(f) \/ CacheHitPublishes(f))
                 /\ CacheChanged(f) => CallSucceeds(f)
       /\ (\E r \in Runs, f \in AllFiles : CallFailed(r, f)) => UNCHANGED sinkVars
       /\ SingleCallFails => UNCHANGED sinkVars]_vars

\* A pipeline's review call has failed for a file whose record, stored by an
\* earlier review, is still in the review store and the diagnostics.
C26_Witness ==
    \E r \in Runs, f \in AllFiles :
        /\ outcome[r][f] = "failed"
        /\ reviewStore[f] # NoRecord
        /\ diagnostics[f] = reviewStore[f]

\* After this step the record of file f, reviewed with text code, is in the
\* cache under (f, code), in the review store and the diagnostics, and the
\* decorations of f are refreshed.
DeliveredEverywhere(f, code) ==
    /\ reviewStore'[f] # NoRecord
    /\ diagnostics'[f] = reviewStore'[f]
    /\ fileCache'[<<f, code>>] = reviewStore'[f]
    /\ f \in decorations'

\* C27: every review call that returns, in the single-file command or in a
\* pipeline of the workspace review, ends with the one normalised record in
\* the cache under (file, content), in the review store, in the diagnostics
\* and on the decoration sink.
C27_RecordDeliveredEverywhere ==
    [][/\ \A r \in Runs, f \in AllFiles :
             (ppc[r][f] = "remote" /\ outcome'[r][f] = "scanned")
                 => DeliveredEverywhere(f, pcode[r][f])
       /\ (single.pc = "remote" /\ ~SingleCallFails /\ single'.pc = "idle")
                 => DeliveredEverywhere(single.file, single.code)]_vars

\* The workspace half of C27 alone.
C27_WorkspaceDeliversEverywhere ==
    [][\A r \in Runs, f \in AllFiles :
          (ppc[r][f] = "remote" /\ outcome'[r][f] = "scanned")
              => DeliveredEverywhere(f, pcode[r][f])]_vars

\* Workspace review r has returned after starting on its candidate files.
ReviewEnded(r) ==
    started[r] # {} /\ rpc[r] \in {"done", "noresults", "crashed"}

\* Workspace review r has logged and shown its summary
\* (logger.logWorkspaceReview, the pick list of outcomes, the status bar).
SummaryProduced(r) == rpc[r] = "done"

BatchOf(i) == (i - 1) \div CONCURRENCY_LIMIT

\* The pipeline of file f in review r has started (its file is being opened
\* or was opened) / has settled.
PipelineStarted(r, f) == ppc[r][f] # "none"
PipelineSettled(r, f) == ppc[r][f] \in {"fulfilled", "rejected"}

\* C29: the batches of a workspace review are the consecutive slices of
\* CONCURRENCY_LIMIT files of the discovered list, taken one after another:
\* a pipeline has started only if every pipeline of the earlier slices has
\* settled and, with it, the pipelines of all files of its own slice.
C29_BatchesOneAfterAnother ==
    LET files == targetFiles IN
    \A r \in env.slots : \A i \in 1..Len(files) :
        PipelineStarted(r, files[i]) =>
            \A j \in 1..Len(files) :
                /\ BatchOf(j) < BatchOf(i) => PipelineSettled(r, files[j])
                /\ BatchOf(j) = BatchOf(i) => PipelineStarted(r, files[j])

\* A pipeline of the second batch runs, the first batch of CONCURRENCY_LIMIT
\* files settled.
C29_Witness ==
    LET files == targetFiles IN
    \E r \in env.slots : \E i \in 1..Len(files) :
        /\ BatchOf(i) = 1
        /\ ppc[r][files[i]] = "remote"
        /\ \A j \in 1..CONCURRENCY_LIMIT : PipelineSettled(r, files[j])

ReadsEligibleText(r, f) ==
    /\ ppc[r][f] = "open" /\ ppc'[r][f] \notin {"open", "rejected"}
    /\ ~isIgnoredFile(f)
    /\ content[f] \notin {"", " "}

\* C31: the cache is written only at the return of a review call of a
\* pipeline, under the file and the text that call reviewed: a skipped
\* pipeline, a cache hit and a call that throws leave the cache as it was.
\* So every cache entry is the record of a successful review, and a pipeline
\* that reads a text with no such entry issues a review call.
C31_CacheOnlyFromSuccess ==
    /\ [](\A f \in AllFiles, c \in Contents :
            fileCache[<<f, c>>] # NoRecord => <<f, c>> \in reviewedOk)
    /\ [][/\ fileCache' # fileCache =>
               \E r \in env.slots, f \in AllFiles :
                   /\ ppc[r][f] = "remote" /\ outcome'[r][f] = "scanned"
                   /\ \A k \in CacheKeys :
                         fileCache'[k] # fileCache[k] => k = <<f, pcode[r][f]>>
          /\ \A r \in env.slots, f \in AllFiles :
                (ReadsEligibleText(r, f) /\ fileCache[<<f, content[f]>>] = NoRecord)
                    => ppc'[r][f] = "remote"]_vars

\* The review call of a file has thrown in one review and left no cache
\* entry, and another review has issued a call for the same file and text.
C31_Witness ==
    \E r1, r2 \in env.slots, f \in AllFiles :
        /\ r1 # r2
        /\ outcome[r1][f] = "failed"
        /\ ppc[r2][f] = "remote"
        /\ pcode[r2][f] = pcode[r1][f]
        /\ fileCache[<<f, pcode[r1][f]>>] = NoRecord

\* C32: the delay waited before retry number n of a call of reviewCode is
\* 1000 * n milliseconds, so the delays of a call strictly increase; a delay
\* is waited after every failed attempt but the last one of the call, so
\* none after the final attempt or after an error that is not retried.
C32_DelaysGrowLinearly ==
    /\ \A n \in 1..Len(api.delays) : api.delays[n] = 1000 * n
    /\ \A m, n \in 1..Len(api.delays) : m < n => api.delays[m] < api.delays[n]
    /\ Len(api.delays) <= maxRetries
    /\ api.pc = "delay" => Len(api.delays) = Len(api.errors)
    /\ api.pc = "threw" => Len(api.delays) = Len(api.errors) - 1
    /\ api.pc \in {"post", "returned"} => Len(api.delays) = Len(api.errors)

\* Both retries were made, after 1000 and 2000 milliseconds, and the third
\* attempt failed too: the call threw without a third delay.
C32_Witness ==
    /\ api.pc = "threw"
    /\ api.delays = <<1000, 2000>>
    /\ Len(api.errors) = maxRetries + 1

\* Workspace review r has returned without having been cancelled, and every
\* pipeline it started has settled.
EndedUncancelled(r) ==
    /\ rpc[r] \in {"done", "noresults", "crashed"}
    /\ ~token[r]
    /\ Settled(r)

\* C33: after a workspace review that was not cancelled and whose pipelines
\* have all settled, scannedCount + skippedCount is the number of candidate
\* files.
C33_EveryCandidateCountedOnce ==
    \A r \in env.slots :
        EndedUncancelled(r) => scannedCount[r] + skippedCount[r] = Len(targetFiles)

\* What holds: the two counters together count the files whose pipeline was
\* skipped, served from the cache or reviewed, which are the candidates
\* but those whose review call threw or whose file could not be opened.
C33_CountersMissFailures ==
    \A r \in env.slots :
        (EndedUncancelled(r) /\ rpc[r] # "crashed") =>
            scannedCount[r] + skippedCount[r]
                = Len(targetFiles)
                    - Cardinality({f \in AllFiles : outcome[r][f] = "failed"})

\* The files whose pipeline incremented skippedCount in review r.
SkippedFiles(r) == {f \in AllFiles : outcome[r][f] \in {"ignored", "empty", "hit"}}

\* C34: in the report of a workspace review the files with a recorded
\* outcome (the 'reviewed' figure, results.length) and the files counted as
\* skipped (skippedCount) are disjoint, and the two figures together do not
\* exceed the number of candidate files.
C34_ReviewedAndSkippedDisjoint ==
    \A r \in env.slots :
        rpc[r] = "done" =>
            /\ ResultUris(r) \cap SkippedFiles(r) = {}
            /\ Len(results[r]) + skippedCount[r] <= Len(targetFiles)

\* What holds: the files in both figures are exactly the cache hits.
C34_OverlapIsCacheHits ==
    \A r \in env.slots :
        rpc[r] = "done" =>
            /\ ResultUris(r) \cap SkippedFiles(r)
                  = {f \in AllFiles : outcome[r][f] = "hit"}
            /\ skippedCount[r] = Cardinality(SkippedFiles(r))

\* The sum of counts.hints over the pipelines of files 1..n of review r that
\* produced an outcome.
RECURSIVE HintsOfOutcomes(_, _)
HintsOfOutcomes(r, n) ==
    IF n = 0 THEN 0
    ELSE HintsOfOutcomes(r, n - 1)
           + (IF pret[r][n] # NullOutcome THEN pret[r][n].hints ELSE 0)

\* C35: whenever every started pipeline of a workspace review has settled,
\* totalIssues is the sum of counts.hints of the pipelines that produced an
\* outcome, in whatever order the pipelines of a batch ran.
C35_IssueTallyExact ==
    \A r \in env.slots :
        Settled(r) => totalIssues[r] = HintsOfOutcomes(r, NumFiles + 3)

\* Three pipelines of one batch returned against their discovery order, each
\* with a suggestion, and the tally is three.
C35_Witness ==
    \E r \in env.slots :
        /\ Settled(r)
        /\ Len(settleSeq[r]) = CONCURRENCY_LIMIT
        /\ settleSeq[r][1] > settleSeq[r][CONCURRENCY_LIMIT]
        /\ \A i \in 1..CONCURRENCY_LIMIT : pret[r][settleSeq[r][i]].hints = 1
        /\ totalIssues[r] = CONCURRENCY_LIMIT

\* C36: the outcome a pipeline of the workspace review returns carries the
\* summary of the record it published for its file, for a freshly reviewed
\* file as for a cache hit.
C36_OutcomeCarriesSummary ==
    [][\A r \in env.slots, f \in AllFiles :
          (outcome[r][f] = "none" /\ outcome'[r][f] \in {"scanned", "hit"})
              => pret'[r][f].summary = reviewStore'[f].summary]_vars

\* The cache-hit half of C36 alone.
C36_HitOutcomeCarriesSummary ==
    [][\A r \in env.slots, f \in AllFiles :
          (outcome[r][f] = "none" /\ outcome'[r][f] = "hit")
              => pret'[r][f].summary = reviewStore'[f].summary]_vars

\* The outcome of a freshly reviewed file has the empty summary.
C36_FreshOutcomeHasNoSummary ==
    \A r \in env.slots, f \in AllFiles :
        outcome[r][f] = "scanned" => pret[r][f].summary = ""

\* C37: a call of reviewCode that returns an analysis, at once or after
\* retries, has shown no error message.
C37_NoErrorShownOnSuccess ==
    api.pc = "returned" => api.shown = 0

\* What holds: one error message is shown per failed attempt, whatever the
\* end of the call.
C37_OneMessagePerFailedAttempt ==
    api.shown = Len(api.errors)

\* C38: after every step the diagnostics hold, for every file, the record
\* the review store holds for it, and the return of a pipeline's review call
\* leaves that record in the cache under (file, content read) as well.
C38_StoreAndDiagnosticsAgree ==
    /\ [](\A f \in AllFiles : diagnostics[f] = reviewStore[f])
    /\ [][\A r \in Runs, f \in AllFiles :
              (ppc[r][f] = "remote" /\ outcome'[r][f] = "scanned")
                  => /\ diagnostics'[f] = reviewStore'[f]
                     /\ fileCache'[<<f, pcode[r][f]>>] = diagnostics'[f]]_vars

\* A file was reviewed by a pipeline and, since then, by the single-file
\* command with another answer: store and diagnostics hold the later record,
\* the cache the earlier one.
C38_Witness ==
    \E r \in Runs, f \in AllFiles :
        /\ outcome[r][f] = "scanned"
        /\ reviewStore[f] # NoRecord
        /\ diagnostics[f] = reviewStore[f]
        /\ fileCache[<<f, pcode[r][f]>>] # NoRecord
        /\ fileCache[<<f, pcode[r][f]>>] # reviewStore[f]

\* File f was edited once, from "a" to the text it holds now, and that is
\* the only edit of the behaviour: every review that read "a" for f started
\* before every review that read the text of now.
EditedOnce(f) == env.edits + 1 = MaxEdits /\ content[f] # "a"

\* No review of file f is under way.
NoReviewUnderWay(f) ==
    /\ ~(single.pc # "idle" /\ single.file = f)
    /\ \A r \in Runs : ppc[r][f] \notin {"open", "remote"}

\* C39: once a review of the old text of a file and a review of its new
\* text have both returned, the review store and the diagnostics hold the
\* record computed from the new text, whichever call returned first.
C39_LastStartedReviewWins ==
    \A f \in AllFiles :
        (/\ EditedOnce(f)
         /\ <<f, "a">> \in reviewedOk
         /\ <<f, content[f]>> \in reviewedOk
         /\ NoReviewUnderWay(f))
            => /\ reviewStore[f].code = content[f]
               /\ diagnostics[f].code = content[f]

\* The window shows an editor whose document is supported and not ignored.
ReviewableEditor ==
    env.editor # 0 /\ isSupportedFile(env.editor) /\ ~isIgnoredFile(env.editor)

\* At this step execute() takes the active file as its target.
FileTargetTaken == env'.singles < env.singles

\* At this step execute() falls back to the workspace review.
WorkspaceTargetTaken == env'.starts < env.starts

\* At this step execute() finds nothing to review.
NoTargetTaken == env'.statusBar # env.statusBar

\* C40: execute() takes the active file exactly when the window shows a
\* supported, not ignored document; failing that, the workspace exactly
\* when a folder is open; failing that, it posts its status message and
\* leaves the single-file review, every workspace review, the store, the
\* diagnostics, the decorations and the cache as they were.
C40_TargetChosenDeterministically ==
    [][/\ FileTargetTaken =>
             /\ ReviewableEditor
             /\ single'.pc # "idle" => single'.file = env.editor
             /\ UNCHANGED <<rpc, ppc>>
       /\ WorkspaceTargetTaken =>
             /\ ~ReviewableEditor /\ env.folders
             /\ UNCHANGED single
       /\ NoTargetTaken =>
             /\ ~ReviewableEditor /\ ~env.folders
             /\ env'.statusBar = NoTargetMessage
             /\ UNCHANGED <<sinkVars, single, rpc, ppc, pcode, pret, results,
                            content, histVars>>
       /\ (ReviewableEditor /\ env.singles > 0 /\ single.pc = "idle")
             => ENABLED ExecuteFile(env.editor)
       /\ (~ReviewableEditor /\ ~env.folders)
             => (ENABLED ExecuteNone(env.editor) \/ env.statusBar = NoTargetMessage)]_vars

\* No folder is open and the window shows a document that is not
\* reviewable: the command has posted its message, and no review was ever
\* started.
C40_Witness ==
    /\ ~env.folders
    /\ env.editor # 0 /\ ~ReviewableEditor
    /\ env.statusBar = NoTargetMessage
    /\ single.pc = "idle"
    /\ \A r \in Runs : rpc[r] = "idle"
    /\ \A f \in AllFiles : reviewStore[f] = NoRecord

====
